---- MODULE Spec2Model ----
(***************************************************************************)
(* Offline/online capability gating and local-first data flow of the rice  *)
(* farmer application:                                                      *)
(*   - useNetworkStatus / useOfflineCapabilities (hooks/useNetworkStatus)   *)
(*   - the disease editor's handleSubmit / handleDelete (update-diseases)   *)
(*   - the simulated classifier analyzeImage (lib/tensorflow)               *)
(*   - the report form's handleSubmit and image list (report-disease)      *)
(*   - the translator's recent list (translate)                            *)
(*   - the loaders of the details, editor, vendor and translator pages     *)
(*   - the scanner's handleAnalyze (DiseaseScannerPage)                    *)
(***************************************************************************)
EXTENDS Integers, Sequences, FiniteSets, TLC

VARIABLES
    \* ---- platform (browser) ----
    navOnLine,      \* navigator.onLine
    evQueue,        \* queued 'online' / 'offline' event tasks, oldest first
    listeners,      \* window listeners: set of <<event type, session>>
    \* ---- useNetworkStatus, one hook instance of the mounted component ----
    phase,          \* "unmounted" | "rendered" (useState done, effect pending) | "mounted"
    session,        \* number of the current mount
    isOnline,       \* useState(true)
    wasOffline,     \* useState(false)
    caps,           \* what useOfflineCapabilities returned at the last render
    \* ---- history of the current session (observation only) ----
    lastEvent,      \* "none" | "online" | "offline": last event handled
    navAtMount,     \* navigator.onLine as read by the effect
    seenOffline,    \* the hook has returned isOffline = true in this session
    \* ---- UpdateDiseasesPage (app/update-diseases/page.tsx) ----
    fetchState,     \* "idle" | "pending" | "ok" | "failed": the fetch of /data/diseases.json
    loading,        \* useState(true)
    diseases,       \* useState<Disease[]>([])
    isEditing,      \* useState(false)
    editingId,      \* useState<string | null>(null)
    showAddForm,    \* useState(false)
    formData,       \* useState<DiseaseFormData>
    localDiseases,  \* localStorage item 'localDiseases' (NoItem when absent)
    consoleOut,     \* what the last step wrote with console.log ("none" if nothing)
    clock,          \* Date.now()
    lastAction,     \* observation only, the step just taken: "add" | "edit" |
                    \* "delete" | "rejected" (submit refused) | "net" | "other"
    \* ---- one call of analyzeImage (lib/tensorflow.ts) ----
    anPc,           \* "idle" | "delay" (awaiting the timer) | "done" (resolved)
    anFile,         \* imageFile: [type, size, name]
    anLocal,        \* the call's locals: detectedDisease id, unrounded confidences
    anResult,       \* the ImageAnalysisResult the promise resolved with
    \* ---- ReportDiseasePage (app/report-disease/page.tsx) ----
    rpForm,         \* useState<ReportFormData>, the validated fields
    images,         \* useState<File[]>([])
    imagePreviews,  \* useState<string[]>([]): the data URL of a file is its name
    readers,        \* FileReaders whose onload is still to come: their files
    isSubmitting,   \* useState(false)
    submitted,      \* useState(false)
    submitError,    \* useState<string | null>(null)
    rpTimers,       \* handleSubmit calls awaiting their 2000 ms timer, oldest
                    \* first: what each saw when it passed its checks
    reportItems,    \* keys of the localStorage items this page has written
    rpAlert,        \* the text the last step passed to alert() (Null if none)
    rpLog,          \* what the last step wrote with console.log ("none" if nothing)
    rpLast,         \* observation only, the step just taken: "submit" | "done" |
                    \* "select" | "net" | "other"
    \* ---- TranslatePage (app/translate/page.tsx) ----
    trFetch,        \* the fetch of /data/translations.json: "idle" (page not
                    \* mounted) | "pending" | "ok" | "failed"
    trLoading,      \* useState(true)
    dictionary,     \* useState<TranslationDictionary>({}): set of <<word, translation>>
    inputText,      \* useState('')
    translatedText, \* useState('')
    translating,    \* useState(false)
    recentTranslations, \* useState([]): records [english, filipino], newest first
    trStored,       \* localStorage item 'recentTranslations' (NoItem when absent)
    trCall,         \* the translateText call awaiting its 500 ms timer: the
                    \* state its closure captured (NoCall if none)
    trLast,         \* observation only, the step just taken: "translated" | "other"
    \* ---- VendorSuggestionsPage (app/vendor-suggestions/page.tsx) ----
    vdFetch,        \* the fetch of /data/vendors.json: "idle" (page not
                    \* mounted) | "pending" | "ok" | "failed"
    vdLoading,      \* `loading`, useState(true)
    vendors,        \* useState<Vendor[]>([])
    filteredVendors, \* useState<Vendor[]>([])
    \* ---- DiseaseDetailsPage (app/disease-details/page.tsx) ----
    dtFetch,        \* the fetch of /data/diseases.json: "idle" (page not
                    \* mounted) | "none" (no request made) | "pending" | "ok" | "failed"
    diseaseId,      \* searchParams.get('id') (Null when absent)
    dtLoading,      \* `loading`, useState(true)
    dtDisease,      \* `disease`, useState<Disease | null>(null)
    dtError,        \* `error`, useState<string | null>(null)
    \* ---- DiseaseScannerPage (the scanner, listed in app/disease-details/page.tsx) ----
    selectedImage,  \* useState<File | null>(null) (NoFile for null)
    imagePreview,   \* useState<string | null>(null): the data URL of a file is its name
    isAnalyzing,    \* useState(false)
    analysisResult, \* useState<ImageAnalysisResult | null>(null) (NoResult for null)
    progress,       \* useState(0), in units of 1/RandN
    progressInterval, \* the setInterval of the running handleAnalyze is active
    scTicks,        \* 200 ms ticks since the running handleAnalyze started (0
                    \* when none is running)
    scReaders,      \* FileReaders whose onload is still to come: their files
    scCall,         \* the file of the analyzeImage call awaiting its timer
                    \* (NoFile if none)
    scLast,         \* observation only, the step just taken: "rejected" (file
                    \* refused with an alert) | "selected" | "started" |
                    \* "analyzed" | "net" | "other"
    \* ---- useNetworkActions: one call of executeWithNetworkCheck ----
    naPc,           \* "idle" (no call yet) | "awaiting" (inside `await action()`)
                    \* | "returned" | "thrown"
    naOptions,      \* the options argument of the call
    naOnline,       \* the isOnline the called closure holds
    naActionCalls,  \* invocations of `action` by the call
    naOnOfflineCalls, \* invocations of `onOffline` by the call
    naWarned,       \* console.warn text of the call (Null if none)
    naSettled,      \* how the promise of `action` settled (NoOutcome before)
    naOutcome,      \* how the call's own promise settled (NoOutcome before)
    \* ---- the router ----
    route           \* the page that owns the hook instance where a specification
                    \* offers more than one: "none" | "report" | "scanner"

netVars == <<navOnLine, evQueue, listeners, phase, session, isOnline,
             wasOffline, caps, lastEvent, navAtMount, seenOffline>>

edVars == <<fetchState, loading, diseases, isEditing, editingId, showAddForm,
            formData, localDiseases, consoleOut, clock, lastAction>>

anVars == <<anPc, anFile, anLocal, anResult>>

naVars == <<naPc, naOptions, naOnline, naActionCalls, naOnOfflineCalls,
            naWarned, naSettled, naOutcome>>

rpVars == <<rpForm, images, imagePreviews, readers, isSubmitting, submitted,
            submitError, rpTimers, reportItems, rpAlert, rpLog, rpLast>>

trVars == <<trFetch, trLoading, dictionary, inputText, translatedText,
            translating, recentTranslations, trStored, trCall, trLast>>

vdVars == <<vdFetch, vdLoading, vendors, filteredVendors>>

dtVars == <<dtFetch, diseaseId, dtLoading, dtDisease, dtError>>

scVars == <<selectedImage, imagePreview, isAnalyzing, analysisResult, progress,
            progressInterval, scTicks, scReaders, scCall, scLast>>

\* the pages other than the editor
pageVars == <<rpVars, trVars, vdVars, dtVars, scVars, route>>

vars == <<netVars, edVars, anVars, naVars, pageVars>>

\* ---- bounds ----
MaxQueue == 2       \* event tasks that may be pending at once
MaxSessions == 3    \* mounts of the component
MaxDiseases == 2    \* records the editor's collection may hold
MaxClock == 2       \* values Date.now() takes
RandN == 8          \* Math.random() returns one of 0/RandN .. (RandN-1)/RandN
MaxPending == 2     \* simulated operations of one kind that may be in flight at once
MaxSelect == 2      \* files in one selection of the file input
MaxReaders == 1     \* FileReaders of the scanner that may be loading at once

----------------------------------------------------------------------------
(* hooks/useNetworkStatus.ts *)

useOfflineCapabilities_ReportAlways(online) ==
    [ canScanImages     |-> TRUE,
      canTranslate      |-> TRUE,
      canViewDiseases   |-> TRUE,
      canViewVendors    |-> TRUE,
      canReportDiseases |-> TRUE,
      canUpdateDatabase |-> online,
      canAccessMaps     |-> online,
      canMakePhoneCalls |-> TRUE,
      canSendEmails     |-> online ]

\* useOfflineCapabilities: the returned table as a function of the hook's isOnline
useOfflineCapabilities(online) ==
    [ canScanImages     |-> TRUE,
      canTranslate      |-> TRUE,
      canViewDiseases   |-> TRUE,
      canViewVendors    |-> TRUE,
      canReportDiseases |-> online,
      canUpdateDatabase |-> online,
      canAccessMaps     |-> online,
      canMakePhoneCalls |-> TRUE,
      canSendEmails     |-> online ]

\* every render of the component re-evaluates the hooks with the new state
Rerender ==
    /\ caps' = useOfflineCapabilities(isOnline')
    /\ seenOffline' = (seenOffline \/ ~isOnline')

\* first render: useState(true), useState(false); the effect has not run yet
NetRender ==
    /\ phase = "unmounted"
    /\ session < MaxSessions
    /\ phase' = "rendered"
    /\ session' = session + 1
    /\ isOnline' = TRUE
    /\ wasOffline' = FALSE
    /\ lastEvent' = "none"
    /\ navAtMount' = TRUE
    /\ caps' = useOfflineCapabilities(isOnline')
    /\ seenOffline' = ~isOnline'
    /\ UNCHANGED <<navOnLine, evQueue, listeners>>

\* the useEffect body: setIsOnline(navigator.onLine), addEventListener x2
NetEffect ==
    /\ phase = "rendered"
    /\ phase' = "mounted"
    /\ isOnline' = navOnLine
    /\ navAtMount' = navOnLine
    /\ listeners' = listeners \cup {<<"online", session>>, <<"offline", session>>}
    /\ Rerender
    /\ UNCHANGED <<navOnLine, evQueue, session, wasOffline, lastEvent>>

NetCleanup_KeepsOffline ==
    /\ phase = "mounted"
    /\ phase' = "unmounted"
    /\ listeners' = listeners \ {<<"online", session>>}
    /\ UNCHANGED <<navOnLine, evQueue, session, isOnline, wasOffline, caps,
                   lastEvent, navAtMount, seenOffline>>

\* the effect's cleanup: removeEventListener x2; the component state is dropped
NetCleanup ==
    /\ phase = "mounted"
    /\ phase' = "unmounted"
    /\ listeners' = listeners \ {<<"online", session>>, <<"offline", session>>}
    /\ UNCHANGED <<navOnLine, evQueue, session, isOnline, wasOffline, caps,
                   lastEvent, navAtMount, seenOffline>>

handleOnline_Resets ==
    /\ isOnline' = TRUE
    /\ wasOffline' = FALSE

\* handleOnline
handleOnline ==
    /\ isOnline' = TRUE
    /\ wasOffline' = IF ~navOnLine THEN TRUE ELSE wasOffline

handleOffline_Reads ==
    /\ isOnline' = navOnLine
    /\ wasOffline' = TRUE

\* handleOffline
handleOffline ==
    /\ isOnline' = FALSE
    /\ wasOffline' = TRUE

\* the platform's connectivity changes: navigator.onLine flips and a task that
\* fires the matching event at window is queued
ConnectivityChange ==
    /\ Len(evQueue) < MaxQueue
    /\ navOnLine' = ~navOnLine
    /\ evQueue' = Append(evQueue, IF navOnLine' THEN "online" ELSE "offline")
    /\ UNCHANGED <<listeners, phase, session, isOnline, wasOffline, caps,
                   lastEvent, navAtMount, seenOffline>>

\* the event loop runs the oldest queued event task
FireEvent ==
    /\ evQueue # <<>>
    /\ evQueue' = Tail(evQueue)
    /\ \/ /\ <<"online", session>> \in listeners
          /\ Head(evQueue) = "online"
          /\ handleOnline
          /\ lastEvent' = "online"
          /\ Rerender
       \/ /\ <<"offline", session>> \in listeners
          /\ Head(evQueue) = "offline"
          /\ handleOffline
          /\ lastEvent' = "offline"
          /\ Rerender
       \/ /\ <<Head(evQueue), session>> \notin listeners
          /\ UNCHANGED <<isOnline, wasOffline, caps, lastEvent, seenOffline>>
    /\ UNCHANGED <<navOnLine, listeners, phase, session, navAtMount>>

\* ---- useNetworkActions (lines 68-107) ----

\* an optional field of the options object: <<>> when omitted, <<v>> when given
Given(v) == <<v>>
Omitted == <<>>
OrDefault(opt, d) == IF opt = Omitted THEN d ELSE opt[1]

DefaultOfflineMessage == "This action requires an internet connection."

\* `options = {}`: every field omitted
NoOptions ==
    [requiresNetwork |-> Omitted, offlineMessage |-> Omitted, onOffline |-> FALSE]

\* the option objects a caller passes; onOffline is TRUE when a callback is given
OptionInputs ==
    [requiresNetwork : {Omitted, Given(TRUE), Given(FALSE)},
     offlineMessage : {Omitted, Given("custom")},
     onOffline : BOOLEAN]

\* how a promise settles: fulfilled with a value or rejected with an error
NoOutcome == [kind |-> "none", value |-> <<>>]
Fulfilled(v) == [kind |-> "fulfilled", value |-> v]
Rejected(e) == [kind |-> "rejected", value |-> e]

\* what `action` may do: resolve to a value (null included) or reject
ActionOutcomes ==
    {Fulfilled(<<"r1">>), Fulfilled(<<"r2">>), Fulfilled(<<>>),
     Rejected(<<"e1">>)}

NetworkRefused_Offline(options, online) == ~online

\* `if (requiresNetwork && !isOnline)` with `requiresNetwork = false` by default
NetworkRefused(options, online) ==
    OrDefault(options.requiresNetwork, FALSE) /\ ~online

\* executeWithNetworkCheck up to `await action()` or the early `return null`
executeWithNetworkCheck(options) ==
    /\ phase # "unmounted"
    /\ naPc \in {"idle", "returned", "thrown"}
    /\ naOptions' = options
    /\ naOnline' = isOnline
    /\ naSettled' = NoOutcome
    /\ IF NetworkRefused(options, isOnline)
       THEN /\ naOnOfflineCalls' = IF options.onOffline THEN 1 ELSE 0
            /\ naWarned' = IF options.onOffline THEN Omitted
                           ELSE Given(OrDefault(options.offlineMessage,
                                              DefaultOfflineMessage))
            /\ naActionCalls' = 0
            /\ naOutcome' = Fulfilled(<<>>)          \* return null
            /\ naPc' = "returned"
       ELSE /\ naOnOfflineCalls' = 0
            /\ naWarned' = Omitted
            /\ naActionCalls' = 1                    \* action()
            /\ naOutcome' = NoOutcome
            /\ naPc' = "awaiting"

\* the promise of `action` settles: its value is returned, its error is logged
\* and thrown again
ActionSettles(outcome) ==
    /\ naPc = "awaiting"
    /\ naSettled' = outcome
    /\ naOutcome' = outcome
    /\ naPc' = IF outcome.kind = "rejected" THEN "thrown" ELSE "returned"
    /\ UNCHANGED <<naOptions, naOnline, naActionCalls, naOnOfflineCalls, naWarned>>

----------------------------------------------------------------------------
(* app/update-diseases/page.tsx *)

\* text is a sequence of one-character strings
RECURSIVE TrimStart(_)
TrimStart(s) ==
    IF s # <<>> /\ Head(s) = " " THEN TrimStart(Tail(s)) ELSE s

RECURSIVE TrimEnd(_)
TrimEnd(s) ==
    IF s # <<>> /\ s[Len(s)] = " " THEN TrimEnd(SubSeq(s, 1, Len(s) - 1)) ELSE s

\* String.prototype.trim
Trim(s) == TrimEnd(TrimStart(s))

\* what the user can type into the name and the description input
NameInputs == { <<" ">>, <<"b", " ">> }
DescriptionInputs == { <<" ", "x">> }

\* `d${n}`
DiseaseId(n) == <<"d", n>>

\* editingId: null
Null == <<>>

\* the form as useState initialises it and as every reset writes it
\* (severity and the list fields symptoms, solutions, prevention, commonAreas
\* are data the handlers copy from the form to the record and back; no guard
\* reads them and they are left out of the records)
BlankForm == [ name |-> <<>>, description |-> <<>> ]

\* documents /data/diseases.json may hold
Datasets ==
    { <<>>,
      << [id |-> DiseaseId(1), name |-> <<"a">>, description |-> <<"x">>] >> }

\* localStorage.getItem of a key never written
NoItem == <<>>

\* JSON.stringify of the collection: an injective encoding of the array
JSONstringify(list) == <<"json", list>>

MapReplace_All(list, id, rec) == [i \in 1..Len(list) |-> rec]

\* prev.map(d => d.id === id ? rec : d)
RECURSIVE MapReplace(_, _, _)
MapReplace(list, id, rec) ==
    IF list = <<>> THEN <<>>
    ELSE <<IF Head(list).id = id THEN rec ELSE Head(list)>>
         \o MapReplace(Tail(list), id, rec)

\* prev.filter(d => d.id !== id)
RECURSIVE FilterOut(_, _)
FilterOut(list, id) ==
    IF list = <<>> THEN <<>>
    ELSE (IF Head(list).id # id THEN <<Head(list)>> ELSE <<>>)
         \o FilterOut(Tail(list), id)

\* every handler of the page below needs the page rendered past its loading
\* screen
PageShown == phase = "mounted" /\ ~loading

\* first render of the page: the useState initialisers
EdRender ==
    /\ NetRender
    /\ fetchState' = "idle"
    /\ loading' = TRUE
    /\ diseases' = <<>>
    /\ isEditing' = FALSE
    /\ editingId' = Null
    /\ showAddForm' = FALSE
    /\ formData' = BlankForm
    /\ lastAction' = "other"
    /\ consoleOut' = "none"
    /\ UNCHANGED <<localDiseases, clock>>
    /\ UNCHANGED <<anVars, naVars, pageVars>>

\* the page's effects: the hook's, and loadDiseases() starting its fetch
EdEffect ==
    /\ NetEffect
    /\ fetchState' = "pending"
    /\ lastAction' = "other"
    /\ consoleOut' = "none"
    /\ UNCHANGED <<loading, diseases, isEditing, editingId, showAddForm,
                   formData, localDiseases, clock>>
    /\ UNCHANGED <<anVars, naVars, pageVars>>

\* loadDiseases: the fetch settles
loadDiseases ==
    /\ fetchState = "pending"
    /\ \/ /\ fetchState' = "ok"                         \* response.ok
          /\ \E data \in Datasets : diseases' = data
       \/ /\ fetchState' = "failed"                     \* throw / catch
          /\ UNCHANGED diseases
    /\ loading' = FALSE                                 \* finally
    /\ lastAction' = "other"
    /\ consoleOut' = "none"
    /\ UNCHANGED <<isEditing, editingId, showAddForm, formData, localDiseases,
                   clock>>
    /\ UNCHANGED <<netVars, anVars, naVars, pageVars>>

\* Dialog onOpenChange={setShowAddForm}: the trigger button opens the dialog,
\* Escape / the close button / an outside click dismiss it
onOpenChange(open) ==
    /\ PageShown
    /\ showAddForm # open
    /\ showAddForm' = open
    /\ lastAction' = "other"
    /\ consoleOut' = "none"
    /\ UNCHANGED <<fetchState, loading, diseases, isEditing, editingId, formData,
                   localDiseases, clock>>
    /\ UNCHANGED <<netVars, anVars, naVars, pageVars>>

\* the Cancel button's onClick
Cancel ==
    /\ PageShown /\ showAddForm
    /\ showAddForm' = FALSE
    /\ isEditing' = FALSE
    /\ editingId' = Null
    /\ formData' = BlankForm
    /\ lastAction' = "other"
    /\ consoleOut' = "none"
    /\ UNCHANGED <<fetchState, loading, diseases, localDiseases, clock>>
    /\ UNCHANGED <<netVars, anVars, naVars, pageVars>>

\* handleInputChange
handleInputChange(field, value) ==
    /\ PageShown /\ showAddForm
    /\ formData' = [formData EXCEPT ![field] = value]
    /\ formData' # formData
    /\ lastAction' = "other"
    /\ consoleOut' = "none"
    /\ UNCHANGED <<fetchState, loading, diseases, isEditing, editingId,
                   showAddForm, localDiseases, clock>>
    /\ UNCHANGED <<netVars, anVars, naVars, pageVars>>

handleSubmit_SavesAlways ==
    /\ PageShown /\ showAddForm
    /\ IF Trim(formData.name) = <<>> \/ Trim(formData.description) = <<>>
       THEN /\ lastAction' = "rejected"
            /\ consoleOut' = "none"
            /\ UNCHANGED <<diseases, formData, isEditing, editingId, showAddForm,
                           localDiseases>>
       ELSE LET newDisease ==
                    [ id          |-> IF editingId # Null THEN editingId
                                      ELSE DiseaseId(clock),
                      name        |-> Trim(formData.name),
                      description |-> Trim(formData.description) ]
            IN  /\ IF editingId # Null
                   THEN /\ diseases' = MapReplace(diseases, editingId, newDisease)
                        /\ lastAction' = "edit"
                   ELSE /\ Len(diseases) < MaxDiseases
                        /\ diseases' = Append(diseases, newDisease)
                        /\ lastAction' = "add"
                /\ formData' = BlankForm
                /\ isEditing' = FALSE
                /\ editingId' = Null
                /\ showAddForm' = FALSE
                /\ IF isOnline
                   THEN /\ consoleOut' = "Syncing with server..."
                        /\ localDiseases' = JSONstringify(diseases)
                   ELSE /\ localDiseases' = JSONstringify(diseases)
                        /\ consoleOut' = "none"
    /\ UNCHANGED <<fetchState, loading, clock>>
    /\ UNCHANGED <<netVars, anVars, naVars, pageVars>>

\* handleSubmit; `diseases` and `isOnline` are the values of the render the
\* handler was created in, that is, the state before this step
handleSubmit ==
    /\ PageShown /\ showAddForm
    /\ IF Trim(formData.name) = <<>> \/ Trim(formData.description) = <<>>
       THEN /\ lastAction' = "rejected"
            /\ consoleOut' = "none"
            /\ UNCHANGED <<diseases, formData, isEditing, editingId, showAddForm,
                           localDiseases>>
       ELSE LET newDisease ==
                    [ id          |-> IF editingId # Null THEN editingId
                                      ELSE DiseaseId(clock),
                      name        |-> Trim(formData.name),
                      description |-> Trim(formData.description) ]
            IN  /\ IF editingId # Null
                   THEN /\ diseases' = MapReplace(diseases, editingId, newDisease)
                        /\ lastAction' = "edit"
                   ELSE /\ Len(diseases) < MaxDiseases
                        /\ diseases' = Append(diseases, newDisease)
                        /\ lastAction' = "add"
                /\ formData' = BlankForm
                /\ isEditing' = FALSE
                /\ editingId' = Null
                /\ showAddForm' = FALSE
                /\ IF isOnline
                   THEN /\ consoleOut' = "Syncing with server..."
                        /\ UNCHANGED localDiseases
                   ELSE /\ localDiseases' = JSONstringify(diseases)
                        /\ consoleOut' = "none"
    /\ UNCHANGED <<fetchState, loading, clock>>
    /\ UNCHANGED <<netVars, anVars, naVars, pageVars>>

\* handleEdit
handleEdit(disease) ==
    /\ PageShown
    /\ formData' = [ name        |-> disease.name,
                     description |-> disease.description ]
    /\ editingId' = disease.id
    /\ isEditing' = TRUE
    /\ showAddForm' = TRUE
    /\ lastAction' = "other"
    /\ consoleOut' = "none"
    /\ UNCHANGED <<fetchState, loading, diseases, localDiseases, clock>>
    /\ UNCHANGED <<netVars, anVars, naVars, pageVars>>

\* handleDelete; confirmed is what confirm() returned
handleDelete(id, confirmed) ==
    /\ PageShown
    /\ IF confirmed
       THEN /\ diseases' = FilterOut(diseases, id)
            /\ lastAction' = "delete"
            /\ IF isOnline
               THEN /\ consoleOut' = "Deleting from server..."
                    /\ UNCHANGED localDiseases
               ELSE /\ localDiseases' = JSONstringify(FilterOut(diseases, id))
                    /\ consoleOut' = "none"
       ELSE /\ lastAction' = "other"
            /\ consoleOut' = "none"
            /\ UNCHANGED <<diseases, localDiseases>>
    /\ UNCHANGED <<fetchState, loading, isEditing, editingId, showAddForm,
                   formData, clock>>
    /\ UNCHANGED <<netVars, anVars, naVars, pageVars>>

\* time passes between two reads of Date.now()
Tick ==
    /\ clock < MaxClock
    /\ clock' = clock + 1
    /\ lastAction' = "other"
    /\ consoleOut' = "none"
    /\ UNCHANGED <<fetchState, loading, diseases, isEditing, editingId,
                   showAddForm, formData, localDiseases>>
    /\ UNCHANGED <<netVars, anVars, naVars, pageVars>>

----------------------------------------------------------------------------
(* lib/tensorflow.ts *)

\* text is a sequence of one-character strings
UpperChars == <<"A", "B", "L", "S", "T">>
LowerChars == <<"a", "b", "l", "s", "t">>

\* String.prototype.toLowerCase, on the letters the file names below use
LowerChar(c) ==
    IF \E i \in 1..Len(UpperChars) : UpperChars[i] = c
    THEN LowerChars[CHOOSE i \in 1..Len(UpperChars) : UpperChars[i] = c]
    ELSE c

toLowerCase(str) == [i \in 1..Len(str) |-> LowerChar(str[i])]

\* String.prototype.startsWith
startsWith(str, prefix) ==
    /\ Len(str) >= Len(prefix)
    /\ SubSeq(str, 1, Len(prefix)) = prefix

\* String.prototype.includes
includes(str, sub) ==
    \E i \in 0..(Len(str) - Len(sub)) : SubSeq(str, i + 1, i + Len(sub)) = sub

ImagePrefix == <<"i", "m", "a", "g", "e", "/">>
KwBlast == <<"b", "l", "a", "s", "t">>
KwBlight == <<"b", "l", "i", "g", "h", "t">>
KwSpot == <<"s", "p", "o", "t">>
KwSheath == <<"s", "h", "e", "a", "t", "h">>
KwTungro == <<"t", "u", "n", "g", "r", "o">>

\* 10 * 1024 * 1024
MaxImageBytes == 10 * 1024 * 1024

\* File objects handed to analyzeImage
FileTypes == { <<"i", "m", "a", "g", "e", "/", "p", "n", "g">>, <<"i", "m", "a", "g", "e">>, <<"t", "e", "x", "t", "/", "p", "l", "a", "i", "n">>, <<"x", "-", "i", "m", "a", "g", "e", "/">> }
FileSizes == { 1, MaxImageBytes, MaxImageBytes + 1 }
FileNames == { <<"l", "e", "a", "f">>, <<"b", "l", "a", "s", "t">>, <<"B", "L", "A", "S", "T">>, <<"s", "p", "o", "t", "b", "l", "a", "s", "t">>,
               <<"s", "h", "e", "a", "t", "h", "b", "l", "i", "g", "h", "t">>, <<"s", "p", "o", "t">>, <<"s", "h", "e", "a", "t", "h">>, <<"t", "u", "n", "g", "r", "o">> }
Files == [type : FileTypes, size : FileSizes, name : FileNames]

\* the `diseases` table; baseConfidence in hundredths
AnDiseases ==
    << [diseaseId |-> "d1", diseaseName |-> "Rice Blast",            baseConfidence |-> 85, severity |-> "High"],
       [diseaseId |-> "d2", diseaseName |-> "Bacterial Leaf Blight", baseConfidence |-> 78, severity |-> "Medium"],
       [diseaseId |-> "d3", diseaseName |-> "Brown Spot",            baseConfidence |-> 72, severity |-> "Medium"],
       [diseaseId |-> "d4", diseaseName |-> "Sheath Blight",         baseConfidence |-> 68, severity |-> "High"],
       [diseaseId |-> "d5", diseaseName |-> "Tungro Virus",          baseConfidence |-> 65, severity |-> "High"] >>

\* A draw of Math.random() is k/RandN with k in Draws.  Unrounded confidences
\* are exact integers in units of 1/(100*RandN): Hundredths(h) is h/100.
Draws == 0..(RandN - 1)
Hundredths(h) == h * RandN

Max(a, b) == IF a >= b THEN a ELSE b
Min(a, b) == IF a <= b THEN a ELSE b

\* Math.round(x * 100), as an integer number of hundredths (x >= 0; halves
\* round up)
RoundHundredths(x) == (2 * x + RandN) \div (2 * RandN)

ValidationError_AtLimit(file) ==
    IF ~startsWith(file.type, ImagePrefix)
    THEN "Invalid file type. Please upload an image file."
    ELSE IF file.size >= MaxImageBytes
    THEN "Image file too large. Please use an image smaller than 10MB."
    ELSE ""

\* the two validation throws: the message thrown, "" when the file passes
ValidationError(file) ==
    IF ~startsWith(file.type, ImagePrefix)
    THEN "Invalid file type. Please upload an image file."
    ELSE IF file.size > MaxImageBytes
    THEN "Image file too large. Please use an image smaller than 10MB."
    ELSE ""

DetectIndex_SheathEarly(name, k) ==
    LET fileName == toLowerCase(name)
    IN  IF includes(fileName, KwBlast) THEN 1
        ELSE IF includes(fileName, KwSheath) THEN 4
        ELSE IF includes(fileName, KwBlight) THEN 2
        ELSE IF includes(fileName, KwSpot) THEN 3
        ELSE IF includes(fileName, KwTungro) THEN 5
        ELSE ((Len(AnDiseases) * k) \div RandN) + 1

DetectIndex_SpotFirst(name, k) ==
    LET fileName == toLowerCase(name)
    IN  IF includes(fileName, KwSpot) THEN 3
        ELSE IF includes(fileName, KwBlast) THEN 1
        ELSE IF includes(fileName, KwBlight) THEN 2
        ELSE IF includes(fileName, KwSheath) THEN 4
        ELSE IF includes(fileName, KwTungro) THEN 5
        ELSE ((5 * k) \div RandN) + 1

\* the keyword chain; the 1-based index into AnDiseases of detectedDisease,
\* k/RandN being the draw of the random fallback
DetectIndex(name, k) ==
    LET fileName == toLowerCase(name)
    IN  IF includes(fileName, KwBlast) THEN 1
        ELSE IF includes(fileName, KwBlight) THEN 2
        ELSE IF includes(fileName, KwSpot) THEN 3
        ELSE IF includes(fileName, KwSheath) THEN 4
        ELSE IF includes(fileName, KwTungro) THEN 5
        ELSE ((Len(AnDiseases) * k) \div RandN) + 1

Confidence_Wide(base, k) ==
    Hundredths(base) + 50 * (2 * k - RandN)

\* Math.max(0.5, Math.min(0.95, baseConfidence + (Math.random() - 0.5) * 0.2))
Confidence(base, k) ==
    Max(Hundredths(50), Min(Hundredths(95), Hundredths(base) + 10 * (2 * k - RandN)))

SecondaryConfidence_NoGap(confidence, k) ==
    Max(Hundredths(30), confidence - 20 * k)

\* Math.max(0.3, confidence - 0.2 - Math.random() * 0.2)
SecondaryConfidence(confidence, k) ==
    Max(Hundredths(30), confidence - Hundredths(20) - 20 * k)

FindOther_First(id) == 1

\* diseases.find(d => d.diseaseId !== detectedDisease.diseaseId): index of the
\* first entry with another id, 0 when there is none
FindOther(id) ==
    IF \E i \in 1..Len(AnDiseases) : AnDiseases[i].diseaseId # id
    THEN CHOOSE i \in 1..Len(AnDiseases) :
            /\ AnDiseases[i].diseaseId # id
            /\ \A j \in 1..(i - 1) : AnDiseases[j].diseaseId = id
    ELSE 0

\* one DiseaseDetectionResult (description repeats name and confidence and is
\* left out); confidence is Math.round(c * 100) / 100 in hundredths
Detection(d, c) ==
    [ diseaseId  |-> d.diseaseId,
      diseaseName |-> d.diseaseName,
      confidence |-> RoundHundredths(c),
      severity   |-> d.severity ]

RECURSIVE InsertDesc_Ascending(_, _)
InsertDesc_Ascending(list, x) ==
    IF list = <<>> THEN <<x>>
    ELSE IF x.confidence < Head(list).confidence THEN <<x>> \o list
    ELSE <<Head(list)>> \o InsertDesc_Ascending(Tail(list), x)

\* insert x into a list sorted by (a, b) => b.confidence - a.confidence,
\* behind the entries it does not beat (the sort is stable)
RECURSIVE InsertDesc(_, _)
InsertDesc(list, x) ==
    IF list = <<>> THEN <<x>>
    ELSE IF x.confidence > Head(list).confidence THEN <<x>> \o list
    ELSE <<Head(list)>> \o InsertDesc(Tail(list), x)

\* results.sort((a, b) => b.confidence - a.confidence)
RECURSIVE SortDesc(_)
SortDesc(list) ==
    IF list = <<>> THEN <<>>
    ELSE InsertDesc(SortDesc(SubSeq(list, 1, Len(list) - 1)), list[Len(list)])

NoFile == [type |-> <<>>, size |-> 0, name |-> <<>>]
NoLocal == [detected |-> "none", confidence |-> 0, secondaryConfidence |-> -1]
NoResult == [success |-> FALSE, results |-> <<>>, error |-> "pending"]

CatchResult_NoMessage(message) ==
    [ success |-> FALSE, results |-> <<>>, error |-> "" ]

\* the catch block: the ImageAnalysisResult returned for a thrown Error
CatchResult(message) ==
    [ success |-> FALSE, results |-> <<>>, error |-> message ]

\* analyzeImage up to its await: validation; a throw goes to the catch block,
\* which resolves the promise with the failure result
AnalyzeStart(file) ==
    /\ anPc = "idle"
    /\ anFile' = file
    /\ anLocal' = NoLocal
    /\ IF ValidationError(file) # ""
       THEN /\ anPc' = "done"
            /\ anResult' = CatchResult(ValidationError(file))
       ELSE /\ anPc' = "delay"
            /\ anResult' = NoResult
    /\ UNCHANGED <<netVars, edVars, naVars, pageVars>>

\* analyzeImage after the timer, for a file named fileName: kPick, kJit,
\* kGate, kRed are the four draws of Math.random() in program order.  Yields
\* the function's locals and the ImageAnalysisResult it returns.
Analysis(fileName, kPick, kJit, kGate, kRed) ==
    LET detectedDisease == AnDiseases[DetectIndex(fileName, kPick)]
        confidence == Confidence(detectedDisease.baseConfidence, kJit)
        primary == <<Detection(detectedDisease, confidence)>>
        other == FindOther(detectedDisease.diseaseId)
        withSecondary == 10 * kGate > 7 * RandN /\ other # 0
        secondaryConfidence == SecondaryConfidence(confidence, kRed)
        results ==
            IF withSecondary
            THEN Append(primary, Detection(AnDiseases[other], secondaryConfidence))
            ELSE primary
    IN  [ local  |-> [ detected |-> detectedDisease.diseaseId,
                       confidence |-> confidence,
                       secondaryConfidence |->
                           IF withSecondary THEN secondaryConfidence ELSE -1 ],
          result |-> [ success |-> TRUE,
                       results |-> SortDesc(results),
                       error   |-> "" ] ]

\* analyzeImage after the timer
AnalyzeFinish(kPick, kJit, kGate, kRed) ==
    /\ anPc = "delay"
    /\ anLocal' = Analysis(anFile.name, kPick, kJit, kGate, kRed).local
    /\ anResult' = Analysis(anFile.name, kPick, kJit, kGate, kRed).result
    /\ anPc' = "done"
    /\ UNCHANGED anFile
    /\ UNCHANGED <<netVars, edVars, naVars, pageVars>>

\* the caller has consumed the result; the next call may start
AnalyzeReturn ==
    /\ anPc = "done"
    /\ anPc' = "idle"
    /\ anFile' = NoFile
    /\ anLocal' = NoLocal
    /\ anResult' = NoResult
    /\ UNCHANGED <<netVars, edVars, naVars, pageVars>>

----------------------------------------------------------------------------
----------------------------------------------------------------------------
(* app/report-disease/page.tsx *)

\* the text of an alert() / an error message; null is Null
Msg(text) == <<text>>

\* Of the fifteen fields of ReportFormData the model keeps one text field that
\* validateForm trims (farmerName; contactNumber, farmLocation, diseaseName,
\* description and symptoms are checked the same way), the select value it
\* tests without trimming (region) and the checkbox (consentToContact).  The
\* other fields are never read by a condition.
BlankReport == [farmerName |-> <<>>, region |-> <<>>, consentToContact |-> FALSE]

FarmerNameInputs == { <<" ">>, <<"x">> }
RegionInputs == { <<"N", "C", "R">> }

\* validateForm
validateForm_NoConsent(form) ==
    IF Trim(form.farmerName) = <<>> THEN Msg("Farmer name is required")
    ELSE IF form.region = <<>> THEN Msg("Region is required")
    ELSE Null

validateForm(form) ==
    IF Trim(form.farmerName) = <<>> THEN Msg("Farmer name is required")
    ELSE IF form.region = <<>> THEN Msg("Region is required")
    ELSE IF ~form.consentToContact THEN Msg("Consent to contact is required")
    ELSE Null

\* handleSubmit up to its second early return: the text it alerts and returns
\* on, Null when it goes on to submit
SubmitRefusal_ValidationOnly(form, online) ==
    validateForm(form)

SubmitRefusal(form, online) ==
    IF validateForm(form) # Null THEN validateForm(form)
    ELSE IF ~online THEN Msg("Internet connection required to submit reports")
    ELSE Null

SubmitDisabled_WhileIdle == ~isOnline \/ ~rpForm.consentToContact

\* the submit button's `disabled` attribute
SubmitDisabled == ~isOnline \/ isSubmitting \/ ~rpForm.consentToContact

\* first render of the page: the useState initialisers
RpRender ==
    /\ NetRender
    /\ rpForm' = BlankReport
    /\ images' = <<>>
    /\ imagePreviews' = <<>>
    /\ isSubmitting' = FALSE
    /\ submitted' = FALSE
    /\ submitError' = Null
    /\ rpAlert' = Null
    /\ rpLog' = "none"
    /\ rpLast' = "other"
    /\ route' = "report"
    /\ UNCHANGED <<readers, rpTimers, reportItems>>
    /\ UNCHANGED <<edVars, anVars, naVars, trVars, vdVars, dtVars, scVars>>

\* the page's only effect is the hook's
RpEffect ==
    /\ NetEffect
    /\ rpAlert' = Null
    /\ rpLog' = "none"
    /\ rpLast' = "other"
    /\ UNCHANGED <<rpForm, images, imagePreviews, readers, isSubmitting,
                   submitted, submitError, rpTimers, reportItems, route>>
    /\ UNCHANGED <<edVars, anVars, naVars, trVars, vdVars, dtVars, scVars>>

\* the form is on screen (the success card replaces it once submitted)
FormShown == route = "report" /\ phase = "mounted" /\ ~submitted

\* handleInputChange
RpHandleInputChange(field, value) ==
    /\ FormShown
    /\ rpForm' = [rpForm EXCEPT ![field] = value]
    /\ rpAlert' = Null
    /\ rpLog' = "none"
    /\ rpLast' = "other"
    /\ UNCHANGED <<images, imagePreviews, readers, isSubmitting, submitted,
                   submitError, rpTimers, reportItems>>
    /\ UNCHANGED <<netVars, edVars, anVars, naVars, trVars, vdVars, dtVars, scVars, route>>

\* handleSubmit up to its await.  viaButton: the submit event comes from the
\* submit button, which must be enabled; otherwise it is dispatched on the
\* form (requestSubmit) and reaches the handler whatever the button's state.
RpHandleSubmit(viaButton) ==
    /\ FormShown
    /\ viaButton => ~SubmitDisabled
    /\ rpLast' = "submit"
    /\ rpLog' = "none"
    /\ rpAlert' = SubmitRefusal(rpForm, isOnline)
    /\ IF SubmitRefusal(rpForm, isOnline) # Null
       THEN UNCHANGED <<isSubmitting, submitError, rpTimers>>
       ELSE /\ Len(rpTimers) < MaxPending
            /\ isSubmitting' = TRUE
            /\ submitError' = Null
            /\ rpTimers' = Append(rpTimers, [formData |-> rpForm, isOnline |-> isOnline])
    /\ UNCHANGED <<rpForm, images, imagePreviews, readers, submitted, reportItems>>
    /\ UNCHANGED <<netVars, edVars, anVars, naVars, trVars, vdVars, dtVars, scVars, route>>

\* handleSubmit after its await: the oldest 2000 ms timer fires.  Nothing in
\* the try block throws, so the catch is not taken.
RpSubmitDone ==
    /\ rpTimers # <<>>
    /\ rpTimers' = Tail(rpTimers)
    /\ rpLog' = "Report submitted:"
    /\ submitted' = TRUE
    /\ isSubmitting' = FALSE                            \* finally
    /\ rpAlert' = Null
    /\ rpLast' = "done"
    /\ UNCHANGED <<rpForm, images, imagePreviews, readers, submitError, reportItems>>
    /\ UNCHANGED <<netVars, edVars, anVars, naVars, trVars, vdVars, dtVars, scVars, route>>

\* "Submit Another Report"
SubmitAnother ==
    /\ route = "report" /\ phase = "mounted" /\ submitted
    /\ submitted' = FALSE
    /\ rpForm' = BlankReport
    /\ images' = <<>>
    /\ imagePreviews' = <<>>
    /\ rpAlert' = Null
    /\ rpLog' = "none"
    /\ rpLast' = "other"
    /\ UNCHANGED <<readers, isSubmitting, submitError, rpTimers, reportItems>>
    /\ UNCHANGED <<netVars, edVars, anVars, naVars, trVars, vdVars, dtVars, scVars, route>>

\* 5 * 1024 * 1024
MaxReportImageBytes == 5 * 1024 * 1024

\* the `5` of 'Maximum 5 images allowed'
MaxReportImages == 5

\* File objects the file input may hand over: two that pass the filter (at
\* exactly 5MB), one that is no image, one that is a byte too large
PngType == <<"i", "m", "a", "g", "e", "/", "p", "n", "g">>
ReportFiles ==
    { [type |-> PngType, size |-> MaxReportImageBytes, name |-> <<"a">>],
      [type |-> PngType, size |-> MaxReportImageBytes, name |-> <<"b">>],
      [type |-> <<"t", "e", "x", "t", "/", "p", "l", "a", "i", "n">>, size |-> 1, name |-> <<"c">>],
      [type |-> PngType, size |-> MaxReportImageBytes + 1, name |-> <<"d">>] }

\* event.target.files: a selection of one to MaxSelect files
Selections == UNION { [1..k -> ReportFiles] : k \in 1..MaxSelect }

\* the first test of handleImageSelect
OverLimit_IgnoresCurrent(count, added) == added > MaxReportImages

OverLimit(count, added) == count + added > MaxReportImages

\* the filter callback of handleImageSelect: the text it alerts for a file it
\* drops (without the file's name), Null for a file it keeps
FileProblem(file) ==
    IF ~startsWith(file.type, ImagePrefix) THEN Msg("is not an image file")
    ELSE IF file.size > MaxReportImageBytes THEN Msg("is too large. Maximum size is 5MB")
    ELSE Null

\* files.filter(...)
RECURSIVE ValidFiles(_)
ValidFiles(files) ==
    IF files = <<>> THEN <<>>
    ELSE (IF FileProblem(Head(files)) = Null THEN <<Head(files)>> ELSE <<>>)
         \o ValidFiles(Tail(files))

\* the last alert the filter raised
RECURSIVE LastProblem(_)
LastProblem(files) ==
    IF files = <<>> THEN Null
    ELSE IF LastProblem(Tail(files)) # Null THEN LastProblem(Tail(files))
    ELSE FileProblem(Head(files))

\* prev.filter((_, i) => i !== index), index counted from 0
RemoveAt(list, index) ==
    [ i \in 1..(IF index < Len(list) THEN Len(list) - 1 ELSE Len(list)) |->
        IF i <= index THEN list[i] ELSE list[i + 1] ]

\* handleImageSelect
handleImageSelect(files) ==
    /\ FormShown
    /\ IF OverLimit(Len(images), Len(files))
       THEN /\ rpAlert' = Msg("Maximum 5 images allowed")
            /\ UNCHANGED <<images, readers>>
       ELSE /\ rpAlert' = LastProblem(files)
            /\ images' = images \o ValidFiles(files)
            /\ readers' = readers \o ValidFiles(files)  \* reader.readAsDataURL(file)
    /\ rpLog' = "none"
    /\ rpLast' = "select"
    /\ UNCHANGED <<rpForm, imagePreviews, isSubmitting, submitted, submitError,
                   rpTimers, reportItems>>
    /\ UNCHANGED <<netVars, edVars, anVars, naVars, trVars, vdVars, dtVars, scVars, route>>

\* reader.onload of the i-th pending FileReader
ReaderLoad(i) ==
    /\ i \in 1..Len(readers)
    /\ imagePreviews' = Append(imagePreviews, readers[i].name)
    /\ readers' = RemoveAt(readers, i - 1)
    /\ rpAlert' = Null
    /\ rpLog' = "none"
    /\ rpLast' = "other"
    /\ UNCHANGED <<rpForm, images, isSubmitting, submitted, submitError,
                   rpTimers, reportItems>>
    /\ UNCHANGED <<netVars, edVars, anVars, naVars, trVars, vdVars, dtVars, scVars, route>>

\* removeImage, from the remove button of the preview at `index`
removeImage(index) ==
    /\ FormShown
    /\ index \in 0..(Len(imagePreviews) - 1)
    /\ images' = RemoveAt(images, index)
    /\ imagePreviews' = RemoveAt(imagePreviews, index)
    /\ rpAlert' = Null
    /\ rpLog' = "none"
    /\ rpLast' = "other"
    /\ UNCHANGED <<rpForm, readers, isSubmitting, submitted, submitError,
                   rpTimers, reportItems>>
    /\ UNCHANGED <<netVars, edVars, anVars, naVars, trVars, vdVars, dtVars, scVars, route>>

----------------------------------------------------------------------------
(* app/translate/page.tsx *)

\* /data/translations.json, as far as the inputs below use it
DictData == { << <<"a">>, <<"b", "a">> >> }

\* dictionary[cleanWord]: undefined is Null
Lookup(dict, word) ==
    IF \E e \in dict : e[1] = word
    THEN (CHOOSE e \in dict : e[1] = word)[2]
    ELSE Null

\* text.split(/\s+/), the only white space being " "
RECURSIVE SplitWs(_)
SplitWs(text) ==
    IF \A i \in 1..Len(text) : text[i] # " " THEN << text >>
    ELSE LET i == CHOOSE k \in 1..Len(text) :
                      text[k] = " " /\ \A m \in 1..(k - 1) : text[m] # " "
             rest == SubSeq(text, i + 1, Len(text))
         IN  << SubSeq(text, 1, i - 1) >> \o SplitWs(TrimStart(rest))

\* translatedWords.join(' ')
RECURSIVE JoinWs(_)
JoinWs(words) ==
    IF words = <<>> THEN <<>>
    ELSE IF Len(words) = 1 THEN words[1]
    ELSE words[1] \o <<" ">> \o JoinWs(Tail(words))

\* the word-by-word translation of translateText (the inputs carry no
\* punctuation, so cleanWord is the word)
TranslateWords(text, dict) ==
    LET words == SplitWs(toLowerCase(text))
    IN  JoinWs([ i \in 1..Len(words) |->
                   IF Lookup(dict, words[i]) # Null /\ Lookup(dict, words[i]) # <<>>
                   THEN Lookup(dict, words[i])
                   ELSE words[i] ])

\* list.slice(0, n)
Slice0(list, n) == SubSeq(list, 1, Min(n, Len(list)))

\* [newTranslation, ...recentTranslations.slice(0, 4)]
RecentUpdate_KeepsFive(newTranslation, recent) ==
    <<newTranslation>> \o Slice0(recent, 5)

RecentUpdate(newTranslation, recent) ==
    <<newTranslation>> \o Slice0(recent, 4)

\* JSON.parse of a value JSON.stringify produced
JSONparse(item) == item[2]

NoCall == <<>>

\* what the textarea may be set to
TextInputs == { <<" ">>, <<"A", " ", "s">> }

\* commonPhrases
CommonPhrases == { [english |-> <<"s">>, filipino |-> <<"t">>] }

\* lists an earlier visit of the page may have left in localStorage
SavedEntryA == [english |-> <<"s">>, filipino |-> <<"s">>]
SavedEntryB == [english |-> <<"A", " ", "s">>, filipino |-> <<"b", "a", " ", "s">>]
SavedLists == { <<SavedEntryA>>,
                <<SavedEntryA, SavedEntryB, SavedEntryA, SavedEntryB, SavedEntryA>> }

\* an earlier visit of the page left its list in localStorage
EarlierVisit(list) ==
    /\ trFetch = "idle" /\ trStored = NoItem
    /\ trStored' = JSONstringify(list)
    /\ trLast' = "other"
    /\ UNCHANGED <<trFetch, trLoading, dictionary, inputText, translatedText,
                   translating, recentTranslations, trCall>>
    /\ UNCHANGED <<netVars, edVars, anVars, naVars, rpVars, vdVars, dtVars, scVars, route>>

\* the page mounts: the useState initialisers, then the effect, which starts
\* loadDictionary and reads 'recentTranslations'
TrMount ==
    /\ trFetch = "idle"
    /\ trFetch' = "pending"
    /\ trLoading' = TRUE
    /\ dictionary' = {}
    /\ inputText' = <<>>
    /\ translatedText' = <<>>
    /\ translating' = FALSE
    /\ recentTranslations' = IF trStored # NoItem THEN JSONparse(trStored) ELSE <<>>
    /\ trLast' = "other"
    /\ UNCHANGED <<trStored, trCall>>
    /\ UNCHANGED <<netVars, edVars, anVars, naVars, rpVars, vdVars, dtVars, scVars, route>>

\* loadDictionary: the fetch settles
loadDictionary ==
    /\ trFetch = "pending"
    /\ \/ trFetch' = "ok" /\ dictionary' = DictData     \* response.ok
       \/ trFetch' = "failed" /\ UNCHANGED dictionary   \* throw / catch
    /\ trLoading' = FALSE                               \* finally
    /\ trLast' = "other"
    /\ UNCHANGED <<inputText, translatedText, translating, recentTranslations,
                   trStored, trCall>>
    /\ UNCHANGED <<netVars, edVars, anVars, naVars, rpVars, vdVars, dtVars, scVars, route>>

\* the page is rendered past its loading screen
TrShown == trFetch \in {"ok", "failed"} /\ ~trLoading

\* the textarea's onChange
setInputText(value) ==
    /\ TrShown
    /\ inputText' = value
    /\ trLast' = "other"
    /\ UNCHANGED <<trFetch, trLoading, dictionary, translatedText, translating,
                   recentTranslations, trStored, trCall>>
    /\ UNCHANGED <<netVars, edVars, anVars, naVars, rpVars, vdVars, dtVars, scVars, route>>

\* onClick of a common phrase or of an entry of the recent list
PickTranslation(translation) ==
    /\ TrShown
    /\ inputText' = translation.english
    /\ translatedText' = translation.filipino
    /\ trLast' = "other"
    /\ UNCHANGED <<trFetch, trLoading, dictionary, translating,
                   recentTranslations, trStored, trCall>>
    /\ UNCHANGED <<netVars, edVars, anVars, naVars, rpVars, vdVars, dtVars, scVars, route>>

\* handleClear, from the Clear button (disabled={!inputText})
handleClear ==
    /\ TrShown /\ inputText # <<>>
    /\ inputText' = <<>>
    /\ translatedText' = <<>>
    /\ trLast' = "other"
    /\ UNCHANGED <<trFetch, trLoading, dictionary, translating,
                   recentTranslations, trStored, trCall>>
    /\ UNCHANGED <<netVars, edVars, anVars, naVars, rpVars, vdVars, dtVars, scVars, route>>

\* translateText up to its await, from the Translate button
\* (disabled={!inputText.trim() || translating})
translateText ==
    /\ TrShown
    /\ Trim(inputText) # <<>> /\ ~translating
    /\ translating' = TRUE
    /\ trCall' = [inputText |-> inputText, dictionary |-> dictionary,
                  recentTranslations |-> recentTranslations]
    /\ trLast' = "other"
    /\ UNCHANGED <<trFetch, trLoading, dictionary, inputText, translatedText,
                   recentTranslations, trStored>>
    /\ UNCHANGED <<netVars, edVars, anVars, naVars, rpVars, vdVars, dtVars, scVars, route>>

\* translateText after its await: the 500 ms timer fires
TranslateDone ==
    /\ trCall # NoCall
    /\ LET result == TranslateWords(trCall.inputText, trCall.dictionary)
           updated == RecentUpdate([english |-> trCall.inputText, filipino |-> result],
                                   trCall.recentTranslations)
       IN  /\ translatedText' = result
           /\ recentTranslations' = updated
           /\ trStored' = JSONstringify(updated)
    /\ translating' = FALSE                             \* finally
    /\ trCall' = NoCall
    /\ trLast' = "translated"
    /\ UNCHANGED <<trFetch, trLoading, dictionary, inputText>>
    /\ UNCHANGED <<netVars, edVars, anVars, naVars, rpVars, vdVars, dtVars, scVars, route>>

----------------------------------------------------------------------------
(* app/vendor-suggestions/page.tsx, app/disease-details/page.tsx: the loaders *)

\* /data/vendors.json
VendorData == { <<>>, << [id |-> <<"v", 1>>, name |-> <<"a">>] >> }

\* The vendor page mounts: the useState initialisers, then the effect that
\* starts loadVendors.  The page's hook instance and its geolocation effect
\* touch neither `loading` nor the two lists and are left out.
VdMount ==
    /\ vdFetch = "idle"
    /\ vdFetch' = "pending"
    /\ vdLoading' = TRUE
    /\ vendors' = <<>>
    /\ filteredVendors' = <<>>
    /\ UNCHANGED <<netVars, edVars, anVars, naVars, rpVars, trVars, dtVars, scVars, route>>

\* loadVendors: the fetch settles
loadVendors ==
    /\ vdFetch = "pending"
    /\ \/ /\ vdFetch' = "ok"                            \* response.ok
          /\ \E data \in VendorData : vendors' = data /\ filteredVendors' = data
       \/ /\ vdFetch' = "failed"                        \* throw / catch
          /\ UNCHANGED <<vendors, filteredVendors>>
    /\ vdLoading' = FALSE                               \* finally
    /\ UNCHANGED <<netVars, edVars, anVars, naVars, rpVars, trVars, dtVars, scVars, route>>

\* values of the `id` search parameter
IdParams == { Null, DiseaseId(1), DiseaseId(9) }

\* diseases.find(d => d.id === diseaseId): undefined is Null
RECURSIVE Find(_, _)
Find(list, id) ==
    IF list = <<>> THEN Null
    ELSE IF Head(list).id = id THEN Head(list)
    ELSE Find(Tail(list), id)

\* The details page mounts with search parameter `id`: the useState
\* initialisers, then the effect running fetchDiseaseDetails up to its await
DtMount(id) ==
    /\ dtFetch = "idle"
    /\ diseaseId' = id
    /\ dtDisease' = Null
    /\ IF id = Null
       THEN /\ dtError' = Msg("No disease ID provided")
            /\ dtLoading' = FALSE
            /\ dtFetch' = "none"
       ELSE /\ dtError' = Null
            /\ dtLoading' = TRUE
            /\ dtFetch' = "pending"
    /\ UNCHANGED <<netVars, edVars, anVars, naVars, rpVars, trVars, vdVars, scVars, route>>

\* fetchDiseaseDetails: the fetch settles
fetchDiseaseDetails ==
    /\ dtFetch = "pending"
    /\ \/ /\ dtFetch' = "ok"                            \* response.ok
          /\ \E data \in Datasets :
                IF Find(data, diseaseId) = Null
                THEN /\ dtError' = Msg("Disease not found")
                     /\ UNCHANGED dtDisease
                ELSE /\ dtDisease' = Find(data, diseaseId)
                     /\ UNCHANGED dtError
       \/ /\ dtFetch' = "failed"                        \* throw / catch
          /\ dtError' = Msg("Failed to load disease data")
          /\ UNCHANGED dtDisease
    /\ dtLoading' = FALSE                               \* finally
    /\ UNCHANGED diseaseId
    /\ UNCHANGED <<netVars, edVars, anVars, naVars, rpVars, trVars, vdVars, scVars, route>>

\* what each page renders: its loading screen, its error card, or the page
DtView ==
    IF dtLoading THEN "loading"
    ELSE IF dtError # Null \/ dtDisease = Null THEN "error"
    ELSE "page"

EdView == IF loading THEN "loading" ELSE "page"

VdView == IF vdLoading THEN "loading" ELSE "page"

TrView == IF trLoading THEN "loading" ELSE "page"

----------------------------------------------------------------------------
(* the scanner page (DiseaseScannerPage) and validateImage of lib/tensorflow.ts *)

\* getSupportedFormats
SupportedFormats ==
    { <<"i", "m", "a", "g", "e", "/", "j", "p", "e", "g">>,
      <<"i", "m", "a", "g", "e", "/", "j", "p", "g">>,
      <<"i", "m", "a", "g", "e", "/", "p", "n", "g">>,
      <<"i", "m", "a", "g", "e", "/", "w", "e", "b", "p">> }

\* validateImage: the error of an invalid file, "" for { valid: true }
validateImage(file) ==
    IF file.type \notin SupportedFormats
    THEN "Unsupported format. Please use: image/jpeg, image/jpg, image/png, image/webp"
    ELSE IF file.size > MaxImageBytes THEN "File too large. Maximum size is 10MB."
    ELSE ""

\* File objects the scanner's file input may hand over
ScFiles ==
    { [type |-> PngType, size |-> 1, name |-> <<"b", "l", "a", "s", "t">>],
      [type |-> PngType, size |-> MaxImageBytes, name |-> <<"s", "p", "o", "t">>],
      [type |-> <<"i", "m", "a", "g", "e", "/", "g", "i", "f">>, size |-> 1, name |-> <<"l", "e", "a", "f">>],
      [type |-> PngType, size |-> MaxImageBytes + 1, name |-> <<"l", "e", "a", "f">>] }

\* the draws of Math.random() the scanner is run with: the least and the
\* greatest
EdgeDraws == { 0, RandN - 1 }

\* analyzeImage awaits 2000 + Math.random() * 2000 ms, less than 4000, and the
\* interval ticks every 200 ms: at most 19 ticks come before the analysis
\* resolves (fewer when the browser delays the interval)
MaxTicks == (2000 + 2000) \div 200 - 1

\* a progress value, in the unit of `progress`
Percent(p) == p * RandN

\* first render of the scanner: the useState initialisers
ScRender ==
    /\ NetRender
    /\ route' = "scanner"
    /\ selectedImage' = NoFile
    /\ imagePreview' = Null
    /\ isAnalyzing' = FALSE
    /\ analysisResult' = NoResult
    /\ progress' = 0
    /\ scLast' = "other"
    /\ UNCHANGED <<progressInterval, scTicks, scReaders, scCall>>
    /\ UNCHANGED <<edVars, anVars, naVars, rpVars, trVars, vdVars, dtVars>>

\* the scanner's only effect is the hook's
ScEffect ==
    /\ NetEffect
    /\ scLast' = "other"
    /\ UNCHANGED <<selectedImage, imagePreview, isAnalyzing, analysisResult,
                   progress, progressInterval, scTicks, scReaders, scCall, route>>
    /\ UNCHANGED <<edVars, anVars, naVars, rpVars, trVars, vdVars, dtVars>>

ScShown == route = "scanner" /\ phase = "mounted"

\* handleImageSelect of the scanner
ScHandleImageSelect(file) ==
    /\ ScShown
    /\ IF validateImage(file) # ""
       THEN /\ scLast' = "rejected"                     \* alert(validation.error)
            /\ UNCHANGED <<selectedImage, analysisResult, scReaders>>
       ELSE /\ Len(scReaders) < MaxReaders
            /\ scLast' = "selected"
            /\ selectedImage' = file
            /\ analysisResult' = NoResult
            /\ scReaders' = Append(scReaders, file)     \* reader.readAsDataURL(file)
    /\ UNCHANGED <<imagePreview, isAnalyzing, progress, progressInterval,
                   scTicks, scCall, route>>
    /\ UNCHANGED <<netVars, edVars, anVars, naVars, rpVars, trVars, vdVars, dtVars>>

\* reader.onload of the i-th pending FileReader
ScReaderLoad(i) ==
    /\ i \in 1..Len(scReaders)
    /\ imagePreview' = scReaders[i].name
    /\ scReaders' = RemoveAt(scReaders, i - 1)
    /\ scLast' = "other"
    /\ UNCHANGED <<selectedImage, isAnalyzing, analysisResult, progress,
                   progressInterval, scTicks, scCall, route>>
    /\ UNCHANGED <<netVars, edVars, anVars, naVars, rpVars, trVars, vdVars, dtVars>>

\* handleAnalyze up to its await, from "Analyze Image" (rendered when
\* !isAnalyzing && !analysisResult) or "Try Again" (rendered with a failed
\* result).  analyzeImage validates before it awaits; a file it refuses
\* resolves the call at once.
handleAnalyze ==
    /\ ScShown
    /\ selectedImage # NoFile
    /\ \/ ~isAnalyzing /\ analysisResult = NoResult
       \/ analysisResult # NoResult /\ ~analysisResult.success
    /\ scCall = NoFile
    /\ scTicks' = 0
    /\ scLast' = "started"
    /\ IF ValidationError(selectedImage) # ""
       THEN /\ analysisResult' = CatchResult(ValidationError(selectedImage))
            /\ progress' = Percent(100)
            /\ isAnalyzing' = FALSE
            /\ progressInterval' = FALSE
            /\ UNCHANGED scCall
       ELSE /\ isAnalyzing' = TRUE
            /\ progress' = 0
            /\ analysisResult' = NoResult
            /\ progressInterval' = TRUE
            /\ scCall' = selectedImage
    /\ UNCHANGED <<selectedImage, imagePreview, scReaders, route>>
    /\ UNCHANGED <<netVars, edVars, anVars, naVars, rpVars, trVars, vdVars, dtVars>>

\* the interval's callback; k is its draw of Math.random()
ProgressTick(k) ==
    /\ progressInterval
    /\ scTicks < MaxTicks
    /\ scTicks' = scTicks + 1
    /\ IF progress >= Percent(90)
       THEN /\ progressInterval' = FALSE                \* clearInterval
            /\ progress' = Percent(90)
       ELSE /\ progress' = progress + 15 * k
            /\ UNCHANGED progressInterval
    /\ scLast' = "other"
    /\ UNCHANGED <<selectedImage, imagePreview, isAnalyzing, analysisResult,
                   scReaders, scCall, route>>
    /\ UNCHANGED <<netVars, edVars, anVars, naVars, rpVars, trVars, vdVars, dtVars>>

ScAnalyzeDone_KeepsTimer(kPick, kJit, kGate, kRed) ==
    /\ scCall # NoFile
    /\ analysisResult' = Analysis(scCall.name, kPick, kJit, kGate, kRed).result
    /\ progress' = Percent(100)
    /\ isAnalyzing' = FALSE
    /\ scCall' = NoFile
    /\ scTicks' = 0
    /\ scLast' = "analyzed"
    /\ UNCHANGED <<selectedImage, imagePreview, scReaders, route, progressInterval>>
    /\ UNCHANGED <<netVars, edVars, anVars, naVars, rpVars, trVars, vdVars, dtVars>>

ScAnalyzeDone_OnlineOnly(kPick, kJit, kGate, kRed) ==
    /\ scCall # NoFile
    /\ IF navOnLine
       THEN /\ analysisResult' = Analysis(scCall.name, kPick, kJit, kGate, kRed).result
            /\ progress' = Percent(100)
       ELSE UNCHANGED <<analysisResult, progress>>
    /\ isAnalyzing' = FALSE
    /\ progressInterval' = FALSE
    /\ scCall' = NoFile
    /\ scTicks' = 0
    /\ scLast' = "analyzed"
    /\ UNCHANGED <<selectedImage, imagePreview, scReaders, route>>
    /\ UNCHANGED <<netVars, edVars, anVars, naVars, rpVars, trVars, vdVars, dtVars>>

\* handleAnalyze after its await: analyzeImage resolves (its timer
\* fired); it never rejects, so the catch is not taken
ScAnalyzeDone(kPick, kJit, kGate, kRed) ==
    /\ scCall # NoFile
    /\ analysisResult' = Analysis(scCall.name, kPick, kJit, kGate, kRed).result
    /\ progress' = Percent(100)
    /\ isAnalyzing' = FALSE                             \* finally
    /\ progressInterval' = FALSE
    /\ scCall' = NoFile
    /\ scTicks' = 0
    /\ scLast' = "analyzed"
    /\ UNCHANGED <<selectedImage, imagePreview, scReaders, route>>
    /\ UNCHANGED <<netVars, edVars, anVars, naVars, rpVars, trVars, vdVars, dtVars>>

\* handleReset, from the Reset button (disabled={isAnalyzing})
handleReset ==
    /\ ScShown /\ ~isAnalyzing
    /\ selectedImage' = NoFile
    /\ imagePreview' = Null
    /\ analysisResult' = NoResult
    /\ progress' = 0
    /\ scLast' = "other"
    /\ UNCHANGED <<isAnalyzing, progressInterval, scTicks, scReaders, scCall, route>>
    /\ UNCHANGED <<netVars, edVars, anVars, naVars, rpVars, trVars, vdVars, dtVars>>

Init ==
    /\ navOnLine \in BOOLEAN
    /\ evQueue = <<>>
    /\ listeners = {}
    /\ phase = "unmounted"
    /\ session = 0
    /\ isOnline = TRUE
    /\ wasOffline = FALSE
    /\ caps = useOfflineCapabilities(TRUE)
    /\ lastEvent = "none"
    /\ navAtMount = TRUE
    /\ seenOffline = FALSE
    /\ fetchState = "idle"
    /\ loading = TRUE
    /\ diseases = <<>>
    /\ isEditing = FALSE
    /\ editingId = Null
    /\ showAddForm = FALSE
    /\ formData = BlankForm
    /\ localDiseases = NoItem
    /\ consoleOut = "none"
    /\ clock = 1
    /\ lastAction = "none"
    /\ anPc = "idle"
    /\ anFile = NoFile
    /\ anLocal = NoLocal
    /\ anResult = NoResult
    /\ rpForm = BlankReport
    /\ images = <<>>
    /\ imagePreviews = <<>>
    /\ readers = <<>>
    /\ isSubmitting = FALSE
    /\ submitted = FALSE
    /\ submitError = Null
    /\ rpTimers = <<>>
    /\ reportItems = {}
    /\ rpAlert = Null
    /\ rpLog = "none"
    /\ rpLast = "none"
    /\ trFetch = "idle"
    /\ trLoading = TRUE
    /\ dictionary = {}
    /\ inputText = <<>>
    /\ translatedText = <<>>
    /\ translating = FALSE
    /\ recentTranslations = <<>>
    /\ trStored = NoItem
    /\ trCall = NoCall
    /\ trLast = "none"
    /\ vdFetch = "idle"
    /\ vdLoading = TRUE
    /\ vendors = <<>>
    /\ filteredVendors = <<>>
    /\ dtFetch = "idle"
    /\ diseaseId = Null
    /\ dtLoading = TRUE
    /\ dtDisease = Null
    /\ dtError = Null
    /\ selectedImage = NoFile
    /\ imagePreview = Null
    /\ isAnalyzing = FALSE
    /\ analysisResult = NoResult
    /\ progress = 0
    /\ progressInterval = FALSE
    /\ scTicks = 0
    /\ scReaders = <<>>
    /\ scCall = NoFile
    /\ scLast = "none"
    /\ route = "none"
    /\ naPc = "idle"
    /\ naOptions = NoOptions
    /\ naOnline = TRUE
    /\ naActionCalls = 0
    /\ naOnOfflineCalls = 0
    /\ naWarned = Omitted
    /\ naSettled = NoOutcome
    /\ naOutcome = NoOutcome

\* a component that uses only the hooks
Render == NetRender /\ UNCHANGED <<edVars, anVars, naVars, pageVars>>
RunEffect == NetEffect /\ UNCHANGED <<edVars, anVars, naVars, pageVars>>
Cleanup == NetCleanup /\ UNCHANGED <<edVars, anVars, naVars, pageVars>>
EvChange == ConnectivityChange /\ UNCHANGED <<edVars, anVars, naVars, pageVars>>
EvFire == FireEvent /\ UNCHANGED <<edVars, anVars, naVars, pageVars>>

Next ==
    \/ Render
    \/ RunEffect
    \/ Cleanup
    \/ EvChange
    \/ EvFire

Spec == Init /\ [][Next]_vars

\* a component that calls executeWithNetworkCheck of useNetworkActions, under
\* connectivity changes
NaCall ==
    /\ \E options \in OptionInputs : executeWithNetworkCheck(options)
    /\ UNCHANGED <<netVars, edVars, anVars, pageVars>>

NaSettle ==
    /\ \E outcome \in ActionOutcomes : ActionSettles(outcome)
    /\ UNCHANGED <<netVars, edVars, anVars, pageVars>>

NaNext ==
    \/ Render
    \/ RunEffect
    \/ Cleanup
    \/ EvChange
    \/ EvFire
    \/ NaCall
    \/ NaSettle

SpecActions == Init /\ [][NaNext]_vars

\* the disease editor page, mounted once, under connectivity changes
EdConnectivity ==
    /\ ConnectivityChange \/ FireEvent
    /\ lastAction' = "net"
    /\ consoleOut' = "none"
    /\ UNCHANGED <<fetchState, loading, diseases, isEditing, editingId,
                   showAddForm, formData, localDiseases, clock>>
    /\ UNCHANGED <<anVars, naVars, pageVars>>

EdSubmit == handleSubmit

EdNext ==
    \/ EdRender
    \/ EdEffect
    \/ EdConnectivity
    \/ loadDiseases
    \/ \E open \in BOOLEAN : onOpenChange(open)
    \/ Cancel
    \/ \E v \in NameInputs : handleInputChange("name", v)
    \/ \E v \in DescriptionInputs : handleInputChange("description", v)
    \/ EdSubmit
    \/ \E i \in 1..Len(diseases) : handleEdit(diseases[i])
    \/ \E i \in 1..Len(diseases), c \in BOOLEAN : handleDelete(diseases[i].id, c)
    \/ Tick

SpecEditor == Init /\ [][EdNext]_vars

\* calls of analyzeImage, one after the other
AnNext ==
    \/ \E file \in Files : AnalyzeStart(file)
    \/ \E kPick \in Draws, kJit \in Draws, kGate \in Draws, kRed \in Draws :
            AnalyzeFinish(kPick, kJit, kGate, kRed)
    \/ AnalyzeReturn

SpecAnalyze == Init /\ [][AnNext]_vars

\* the report form under connectivity changes, mounted once
RpConnectivity ==
    /\ ConnectivityChange \/ FireEvent
    /\ rpAlert' = Null
    /\ rpLog' = "none"
    /\ rpLast' = "net"
    /\ UNCHANGED <<rpForm, images, imagePreviews, readers, isSubmitting,
                   submitted, submitError, rpTimers, reportItems, route>>
    /\ UNCHANGED <<edVars, anVars, naVars, trVars, vdVars, dtVars, scVars>>

RpNext ==
    \/ RpRender
    \/ RpEffect
    \/ RpConnectivity
    \/ \E v \in FarmerNameInputs : RpHandleInputChange("farmerName", v)
    \/ \E v \in RegionInputs : RpHandleInputChange("region", v)
    \/ \E v \in BOOLEAN : RpHandleInputChange("consentToContact", v)
    \/ \E viaButton \in BOOLEAN : RpHandleSubmit(viaButton)
    \/ RpSubmitDone
    \/ SubmitAnother

SpecReport == Init /\ [][RpNext]_vars

\* the report form as its user drives it: every submit event comes from the
\* submit button (implicit submission does nothing while the form's submit
\* button is disabled).  The 2000 ms timer of a submission always fires.
RpUserNext ==
    \/ RpRender
    \/ RpEffect
    \/ RpConnectivity
    \/ \E v \in FarmerNameInputs : RpHandleInputChange("farmerName", v)
    \/ \E v \in RegionInputs : RpHandleInputChange("region", v)
    \/ \E v \in BOOLEAN : RpHandleInputChange("consentToContact", v)
    \/ RpHandleSubmit(TRUE)
    \/ RpSubmitDone
    \/ SubmitAnother

SpecSubmit == Init /\ [][RpUserNext]_vars /\ WF_vars(RpSubmitDone)

\* the report form's image list
ImNext ==
    \/ RpRender
    \/ RpEffect
    \/ \E files \in Selections : handleImageSelect(files)
    \/ \E i \in 1..Len(readers) : ReaderLoad(i)
    \/ \E index \in 0..(MaxReportImages - 1) : removeImage(index)

SpecImages == Init /\ [][ImNext]_vars

\* the translator, mounted once
TrNext ==
    \/ \E list \in SavedLists : EarlierVisit(list)
    \/ TrMount
    \/ loadDictionary
    \/ \E v \in TextInputs : setInputText(v)
    \/ \E p \in CommonPhrases : PickTranslation(p)
    \/ \E i \in 1..Len(recentTranslations) : PickTranslation(recentTranslations[i])
    \/ handleClear
    \/ translateText
    \/ TranslateDone

SpecTranslate == Init /\ [][TrNext]_vars

\* the four pages that load a static document, each mounted once
LoadNext ==
    \/ EdRender
    \/ EdEffect
    \/ loadDiseases
    \/ VdMount
    \/ loadVendors
    \/ \E id \in IdParams : DtMount(id)
    \/ fetchDiseaseDetails
    \/ TrMount
    \/ loadDictionary

SpecLoad == Init /\ [][LoadNext]_vars

\* the scanner under connectivity changes
ScConnectivity ==
    /\ ConnectivityChange \/ FireEvent
    /\ scLast' = "net"
    /\ UNCHANGED <<selectedImage, imagePreview, isAnalyzing, analysisResult,
                   progress, progressInterval, scTicks, scReaders, scCall, route>>
    /\ UNCHANGED <<edVars, anVars, naVars, rpVars, trVars, vdVars, dtVars>>

\* the timer of the running analysis fires, with some draws of Math.random()
ScDone ==
    \E kPick \in EdgeDraws, kJit \in EdgeDraws, kGate \in EdgeDraws, kRed \in EdgeDraws :
        ScAnalyzeDone(kPick, kJit, kGate, kRed)

\* The simulated operations in flight: the browser shows the report form or
\* the scanner, and connectivity changes at any time.
FlightNext ==
    \/ RpRender
    \/ RpEffect
    \/ RpConnectivity
    \/ \E v \in FarmerNameInputs : RpHandleInputChange("farmerName", v)
    \/ \E v \in RegionInputs : RpHandleInputChange("region", v)
    \/ \E v \in BOOLEAN : RpHandleInputChange("consentToContact", v)
    \/ \E viaButton \in BOOLEAN : RpHandleSubmit(viaButton)
    \/ RpSubmitDone
    \/ SubmitAnother
    \/ ScRender
    \/ ScEffect
    \/ ScConnectivity
    \/ \E file \in ScFiles : ScHandleImageSelect(file)
    \/ \E i \in 1..Len(scReaders) : ScReaderLoad(i)
    \/ handleAnalyze
    \/ \E k \in {RandN - 1} : ProgressTick(k)
    \/ ScDone
    \/ handleReset

SpecFlight == Init /\ [][FlightNext]_vars

\* The scanner alone, mounted once, its interval drawing the greatest
\* increment.  The timer analyzeImage awaits always fires.
ScNext ==
    \/ ScRender
    \/ ScEffect
    \/ \E file \in ScFiles : ScHandleImageSelect(file)
    \/ \E i \in 1..Len(scReaders) : ScReaderLoad(i)
    \/ handleAnalyze
    \/ \E k \in {RandN - 1} : ProgressTick(k)
    \/ ScDone
    \/ handleReset

SpecScanner == Init /\ [][ScNext]_vars /\ WF_vars(ScDone)

----------------------------------------------------------------------------
(* Properties *)

\* C1: once wasOffline is true it stays true in every later state of the same
\* mounted session, whatever online / offline events follow.
C1_WasOfflineSticky ==
    [][(wasOffline /\ session' = session) => wasOffline']_vars

\* reconnected after an offline event, wasOffline still set
C1_Witness ==
    phase = "mounted" /\ lastEvent = "online" /\ isOnline /\ wasOffline

\* C2: while mounted, isOnline is the signal of the most recent event handled
\* (true after 'online', false after 'offline'), and before any event it is
\* navigator.onLine as the effect read it at mount.
C2_IsOnlineReflectsLastSignal ==
    phase = "mounted" =>
        isOnline = (IF lastEvent = "none" THEN navAtMount ELSE lastEvent = "online")

\* an 'offline' event was handled while the platform had already reconnected
C2_Witness ==
    phase = "mounted" /\ lastEvent = "offline" /\ navOnLine /\ ~isOnline

\* C3: in every state of a session in which the hook has reported
\* isOffline = true (now or earlier), wasOffline is true.
C3_HistoricalOfflineExposed ==
    (phase # "unmounted" /\ seenOffline) => wasOffline

\* C4: canScanImages, canTranslate, canViewDiseases and canViewVendors are true
\* for both values of isOnline, canReportDiseases equals isOnline, and every
\* entry of the table is either constant true or isOnline itself.
C4_CapabilityTable ==
    /\ caps.canScanImages = TRUE
    /\ caps.canTranslate = TRUE
    /\ caps.canViewDiseases = TRUE
    /\ caps.canViewVendors = TRUE
    /\ caps.canReportDiseases = isOnline
    /\ \A f \in DOMAIN caps : caps[f] = TRUE \/ caps[f] = isOnline

\* the table as rendered while offline
C4_Witness ==
    /\ phase = "mounted" /\ ~isOnline
    /\ ~caps.canReportDiseases /\ caps.canScanImages /\ caps.canTranslate

\* the editor's mutating actions, as lastAction records them
Mutations == { "add", "edit", "delete" }

\* C5: after an add, an edit or a delete performed while offline, the item
\* 'localDiseases' is the serialization of the collection as it is after that
\* action.
C5_LocalCopyIsCurrentCollection ==
    (lastAction \in Mutations /\ ~isOnline) =>
        localDiseases = JSONstringify(diseases)

\* C6: 'localDiseases' changes only in an add, edit or delete taken while
\* offline; an add, edit or delete taken while online logs and leaves the item
\* alone; a connectivity step changes neither the item nor the collection and
\* logs nothing (no re-sync).
C6_LocalKeyWrittenOnlyOffline ==
    [][ /\ (localDiseases' # localDiseases) =>
               (~isOnline /\ lastAction' \in Mutations)
        /\ (lastAction' \in Mutations /\ isOnline) =>
               (localDiseases' = localDiseases /\ consoleOut' # "none")
        /\ (lastAction' = "net") =>
               /\ localDiseases' = localDiseases
               /\ diseases' = diseases
               /\ consoleOut' = "none"
      ]_vars

\* back online after an offline write: the item keeps the local-only copy
C6_Witness ==
    /\ lastAction = "net" /\ lastEvent = "online" /\ isOnline
    /\ localDiseases # NoItem
    /\ consoleOut = "none"

\* C7: a file whose type does not start with 'image/' or whose size exceeds
\* 10*1024*1024 resolves with success = false, no results and a non-empty
\* error message; every other file (an image of exactly 10MB included) passes
\* validation, whatever its name.
C7_ValidationRejects ==
    anPc # "idle" =>
        IF ~startsWith(anFile.type, ImagePrefix) \/ anFile.size > 10 * 1024 * 1024
        THEN /\ anPc = "done"
             /\ anResult.success = FALSE
             /\ anResult.results = <<>>
             /\ anResult.error \notin {"", "pending"}
        ELSE anPc = "delay" \/ anResult.success = TRUE

\* an image of 10MB + 1 byte named after a keyword was rejected
C7_Witness ==
    /\ anPc = "done" /\ ~anResult.success
    /\ startsWith(anFile.type, ImagePrefix)
    /\ anFile.size = 10 * 1024 * 1024 + 1
    /\ includes(anFile.name, KwBlast)

\* C8: for a file that passes validation and whose lower-cased name contains
\* 'blast', the first entry of the returned results has diseaseId 'd1'.
C8_BlastYieldsD1 ==
    (anPc = "done" /\ anResult.success
        /\ includes(toLowerCase(anFile.name), KwBlast)) =>
            anResult.results[1].diseaseId = "d1"

\* a name with two keywords, 'spot' before 'blast', and a secondary detection
C8_Witness ==
    /\ anPc = "done" /\ anResult.success
    /\ includes(anFile.name, KwSpot) /\ includes(anFile.name, KwBlast)
    /\ Len(anResult.results) = 2

\* C9: in every successful call the primary detection's confidence lies in
\* [0.5, 0.95], before and after rounding to two decimals.
C9_PrimaryConfidenceInRange ==
    (anPc = "done" /\ anResult.success) =>
        /\ anLocal.confidence >= Hundredths(50)
        /\ anLocal.confidence <= Hundredths(95)
        /\ \E i \in 1..Len(anResult.results) :
               anResult.results[i].diseaseId = anLocal.detected
        /\ \A i \in 1..Len(anResult.results) :
               anResult.results[i].diseaseId = anLocal.detected =>
                   /\ anResult.results[i].confidence >= 50
                   /\ anResult.results[i].confidence <= 95

\* the lowest base entry with a confidence that rounding changes
C9_Witness ==
    /\ anPc = "done" /\ anResult.success
    /\ anLocal.detected = "d5"
    /\ anLocal.confidence % RandN # 0

\* C10: whenever a secondary detection is appended, its confidence is strictly
\* lower than the primary detection's, before and after rounding.
C10_SecondaryBelowPrimary ==
    (anPc = "done" /\ anResult.success /\ anLocal.secondaryConfidence # -1) =>
        /\ anLocal.secondaryConfidence < anLocal.confidence
        /\ Len(anResult.results) = 2
        /\ \A i, j \in 1..Len(anResult.results) :
               (/\ anResult.results[i].diseaseId = anLocal.detected
                /\ anResult.results[j].diseaseId # anLocal.detected) =>
                   anResult.results[j].confidence < anResult.results[i].confidence

\* a secondary detection with the smallest reduction (draw 0)
C10_Witness ==
    /\ anPc = "done" /\ anResult.success
    /\ anLocal.secondaryConfidence = anLocal.confidence - Hundredths(20)

\* C11: the results of every analyzeImage outcome are sorted by confidence in
\* non-increasing order.
C11_ResultsSortedDescending ==
    anPc = "done" =>
        \A i \in 1..(Len(anResult.results) - 1) :
            anResult.results[i].confidence >= anResult.results[i + 1].confidence

\* two detections were returned
C11_Witness ==
    anPc = "done" /\ anResult.success /\ Len(anResult.results) = 2

\* C12: whenever two detections are returned they come from different
\* entries: they never share a diseaseId.
C12_SecondaryFromOtherEntry ==
    (anPc = "done" /\ Len(anResult.results) = 2) =>
        anResult.results[1].diseaseId # anResult.results[2].diseaseId

\* the primary is the first entry of the table, which find() must skip
C12_Witness ==
    /\ anPc = "done" /\ Len(anResult.results) = 2
    /\ anLocal.detected = "d1"
    /\ anResult.results[2].diseaseId = "d2"

\* C20: every call resolves; success = true comes with 1 or 2 results and no
\* error, success = false with no results and a non-empty error message.
C20_ResultShape ==
    anPc = "done" =>
        /\ anResult.success \in BOOLEAN
        /\ anResult.success =>
               (Len(anResult.results) \in {1, 2} /\ anResult.error = "")
        /\ ~anResult.success =>
               (anResult.results = <<>> /\ anResult.error \notin {"", "pending"})

\* a call that failed in validation because of the file type
C20_Witness ==
    /\ anPc = "done" /\ ~anResult.success
    /\ anResult.error = "Invalid file type. Please upload an image file."

\* C17: the two listeners are registered exactly while the hook is mounted:
\* outside the mounted phase the set of registered listeners is what it was
\* before the first mount (empty), whatever the number of mount / unmount
\* cycles, and no step taken while unmounted changes isOnline or wasOffline.
C17_ListenersFollowMount ==
    [][ /\ (phase' = "mounted") =>
               listeners' = {<<"online", session'>>, <<"offline", session'>>}
        /\ (phase' # "mounted") => listeners' = {}
        /\ (phase = "unmounted" /\ phase' = "unmounted") =>
               (isOnline' = isOnline /\ wasOffline' = wasOffline)
      ]_vars

\* after the second unmount an 'offline' event was delivered to nobody
C17_Witness ==
    /\ phase = "unmounted" /\ session = 2
    /\ evQueue = <<>> /\ ~navOnLine /\ isOnline /\ listeners = {}

----------------------------------------------------------------------------
(* the report form *)

OfflineAlert == Msg("Internet connection required to submit reports")

\* C13, as the specification states it: a valid report submitted while
\* offline is persisted locally, i.e. after the submit some localStorage item
\* written by the page holds it.
C13_OfflineReportStoredLocally ==
    [][ (rpLast' = "submit" /\ ~isOnline /\ validateForm(rpForm) = Null)
            => reportItems' # {} ]_vars

\* C13, amended: a valid report submitted while offline is refused with the
\* alert 'Internet connection required to submit reports'; nothing is written
\* to localStorage, nothing is sent or logged, and the form keeps its data.
C13_OfflineReportRefused ==
    [][ (rpLast' = "submit" /\ ~isOnline /\ validateForm(rpForm) = Null)
            => /\ rpAlert' = OfflineAlert
               /\ reportItems' = {}
               /\ rpTimers' = rpTimers
               /\ rpLog' = "none"
               /\ rpForm' = rpForm ]_vars

C13_Witness ==
    /\ rpLast = "submit" /\ ~isOnline /\ validateForm(rpForm) = Null
    /\ rpAlert = OfflineAlert /\ reportItems = {} /\ rpTimers = <<>>

\* C14: a submit attempted while isOnline is false starts nothing: it leaves
\* isSubmitting and submitted as they were (submitted false, isSubmitting
\* false unless an earlier submission is still in flight), logs nothing and
\* leaves the form data and the images alone; and submitted becomes true only
\* on completion of a submission whose handler ran while online with a form
\* having every required field filled and consent given.
C14_OfflineSubmitNeverStarts ==
    [][ /\ (rpLast' = "submit" /\ ~isOnline)
            => /\ isSubmitting' = isSubmitting
               /\ rpTimers = <<>> => ~isSubmitting'
               /\ ~submitted'
               /\ rpTimers' = rpTimers
               /\ rpLog' = "none"
               /\ rpForm' = rpForm
               /\ images' = images
        /\ (submitted' /\ ~submitted)
            => /\ rpTimers # <<>>
               /\ Head(rpTimers).isOnline
               /\ Trim(Head(rpTimers).formData.farmerName) # <<>>
               /\ Head(rpTimers).formData.region # <<>>
               /\ Head(rpTimers).formData.consentToContact ]_vars

C14_Witness ==
    /\ rpLast = "submit" /\ ~isOnline /\ wasOffline
    /\ ~isSubmitting /\ ~submitted /\ rpForm.consentToContact
    /\ rpAlert = OfflineAlert

\* C19: images never holds more than 5 files, every one of them has a type
\* starting with 'image/' and a size of at most 5MB; a selection either
\* appends to the list within that limit or, when it would bring the total
\* above 5, leaves the list as it was.
C19_ImagesWithinLimits ==
    [][ /\ Len(images') <= 5
        /\ \A i \in 1..Len(images') :
                /\ startsWith(images'[i].type, ImagePrefix)
                /\ images'[i].size <= 5 * 1024 * 1024
        /\ rpLast' = "select"
            => /\ Len(images') >= Len(images)
               /\ SubSeq(images', 1, Len(images)) = images
        /\ rpAlert' = Msg("Maximum 5 images allowed") => images' = images ]_vars

C19_Witness ==
    /\ Len(images) = 4 /\ rpLast = "select"
    /\ rpAlert = Msg("Maximum 5 images allowed")

----------------------------------------------------------------------------
(* the translator *)

\* C18: when a translation completes, the localStorage item
\* 'recentTranslations' is the JSON of the in-memory list, whose first entry is
\* the new translation, followed by the first (at most) four entries of the
\* list as it was; the list has at most 5 entries.
C18_RecentListStoredAndBounded ==
    [][ trLast' = "translated"
            => /\ trStored' = JSONstringify(recentTranslations')
               /\ Len(recentTranslations') <= 5
               /\ recentTranslations'[1] =
                      [english |-> trCall.inputText, filipino |-> translatedText']
               /\ Tail(recentTranslations') =
                      SubSeq(recentTranslations, 1, Min(4, Len(recentTranslations)))
      ]_vars

C18_Witness ==
    /\ trLast = "translated"
    /\ Len(recentTranslations) = 5
    /\ recentTranslations[1] = SavedEntryB
    /\ recentTranslations[5] = SavedEntryB
    /\ trStored = JSONstringify(recentTranslations)

----------------------------------------------------------------------------
(* the loaders *)

\* C15, as the specification states it: in each of the four views a failed
\* load ends with loading false and the view showing an error state.
C15_FailedLoadShowsError ==
    /\ dtFetch = "failed" => (~dtLoading /\ DtView = "error")
    /\ fetchState = "failed" => (~loading /\ EdView = "error")
    /\ vdFetch = "failed" => (~vdLoading /\ VdView = "error")
    /\ trFetch = "failed" => (~trLoading /\ TrView = "error")

----------------------------------------------------------------------------
(* operations in flight *)

\* C16: a report submission that passed its checks, and an image analysis
\* that started, stay in flight through every other step, connectivity
\* changes included; the only step that ends them is the one of their own
\* timer, and it delivers the outcome: submitted = true, respectively
\* analysisResult set (and isAnalyzing true until then).
C16_InFlightRunsToCompletion ==
    [][ /\ \/ /\ Len(rpTimers') >= Len(rpTimers)
              /\ SubSeq(rpTimers', 1, Len(rpTimers)) = rpTimers
           \/ /\ rpTimers # <<>> /\ rpTimers' = Tail(rpTimers)
              /\ rpLast' = "done" /\ submitted'
        /\ scCall # NoFile
             => \/ scCall' = scCall /\ isAnalyzing'
                \/ /\ scCall' = NoFile /\ scLast' = "analyzed"
                   /\ analysisResult' # NoResult /\ ~isAnalyzing'
      ]_vars

C16_Witness ==
    /\ rpLast = "done" /\ submitted
    /\ ~navOnLine /\ ~isOnline /\ lastEvent = "offline"

----------------------------------------------------------------------------
(* the keyword chain of analyzeImage *)

\* the keywords in the order the chain tests them, with the id each selects
KeywordPriority ==
    << <<KwBlast, "d1">>, <<KwBlight, "d2">>, <<KwSpot, "d3">>,
       <<KwSheath, "d4">>, <<KwTungro, "d5">> >>

\* C21: in every successful call the primary entry is the one of the first
\* keyword, in the order blast, blight, spot, sheath, tungro, that the
\* lower-cased file name contains, whatever the random draw; so a name with
\* 'sheath' has primary d4 exactly when it has none of blast, blight, spot;
\* only a name without any keyword gets an entry that depends on the draw.
C21_FirstKeywordDecides ==
    (anPc = "done" /\ anResult.success) =>
        LET fileName == toLowerCase(anFile.name)
            matches == { i \in 1..5 : includes(fileName, KeywordPriority[i][1]) }
        IN  /\ matches # {} =>
                    anLocal.detected =
                        KeywordPriority[CHOOSE i \in matches :
                                            \A j \in matches : i <= j][2]
            /\ includes(fileName, KwSheath) =>
                    ( anLocal.detected = "d4" <=>
                        ~ \/ includes(fileName, KwBlast)
                          \/ includes(fileName, KwBlight)
                          \/ includes(fileName, KwSpot) )
            /\ anLocal.detected \in {"d1", "d2", "d3", "d4", "d5"}

\* a name with 'sheath' and 'blight': the earlier keyword wins
C21_Witness ==
    /\ anPc = "done" /\ anResult.success
    /\ includes(anFile.name, KwSheath) /\ includes(anFile.name, KwBlight)
    /\ anLocal.detected = "d2"
    /\ anResult.results[1].diseaseId = "d2"

----------------------------------------------------------------------------
(* useNetworkActions *)

\* the call asked for the network while its closure saw the application offline
NaOffline == naOptions.requiresNetwork = Given(TRUE) /\ ~naOnline

\* C22: a call with requiresNetwork = true made while offline never invokes the
\* action, invokes onOffline once exactly when it was given, and returns null;
\* every other call (online, or requiresNetwork false or omitted) invokes the
\* action exactly once and never onOffline, returns the value the action
\* resolved to, and throws the error the action rejected with.
C22_NetworkCheckGatesAction ==
    naPc # "idle" =>
        IF NaOffline
        THEN /\ naActionCalls = 0
             /\ naOnOfflineCalls = (IF naOptions.onOffline THEN 1 ELSE 0)
             /\ naPc = "returned"
             /\ naOutcome = Fulfilled(Omitted)
        ELSE /\ naActionCalls = 1
             /\ naOnOfflineCalls = 0
             /\ naWarned = Omitted
             /\ naPc = "awaiting" => naOutcome = NoOutcome
             /\ naPc = "returned" =>
                    naSettled.kind = "fulfilled" /\ naOutcome = naSettled
             /\ naPc = "thrown" =>
                    naSettled.kind = "rejected" /\ naOutcome = naSettled

\* an offline call with requiresNetwork = true and onOffline given was refused
C22_Witness ==
    /\ naPc = "returned" /\ ~naOnline
    /\ naOptions.requiresNetwork = Given(TRUE) /\ naOptions.onOffline
    /\ naOnOfflineCalls = 1 /\ naActionCalls = 0
    /\ naOutcome = Fulfilled(Omitted)

----------------------------------------------------------------------------
(* the scanner *)

\* an analysis is in flight: handleAnalyze awaits analyzeImage
InFlight == scCall # NoFile

\* the state handleAnalyze leaves when analyzeImage has resolved
Completed ==
    /\ scLast = "analyzed"
    /\ ~isAnalyzing
    /\ progress = Percent(100)
    /\ analysisResult # NoResult

\* C23: every analysis handleAnalyze starts with a selected image reaches a
\* state with isAnalyzing = false, progress = 100 and a non-null analysisResult;
\* isAnalyzing is true all the while it is in flight; and once it has
\* completed the interval is cleared, so that no tick changes progress.
C23_AnalysisCompletes ==
    /\ InFlight ~> Completed
    /\ [](InFlight => isAnalyzing)
    /\ [](~InFlight => ~progressInterval)
    /\ [][scLast' = "analyzed" => Completed']_vars

\* an analysis of a selected image has completed with a detection
C23_Witness ==
    /\ Completed /\ analysisResult.success
    /\ selectedImage # NoFile /\ ~progressInterval

----------------------------------------------------------------------------
(* the disease editor's collection *)

\* the record a valid submit builds from the form
SubmittedRecord(id) ==
    [ id |-> id, name |-> Trim(formData.name),
      description |-> Trim(formData.description) ]

\* C24: a valid submit in edit mode puts the submitted record, under the id
\* editingId, in the place of each record with that id and leaves every other
\* place and the length as they were; a valid submit in add mode appends one
\* record after the unchanged collection; a confirmed delete leaves exactly
\* the records that do not have the deleted id, in their order; a submit with
\* a blank trimmed name or description changes neither the collection, nor
\* local storage, nor the form state.
C24_EditorChangesExactly ==
    [][ /\ lastAction' = "edit" =>
            /\ editingId # Null
            /\ Len(diseases') = Len(diseases)
            /\ \A i \in 1..Len(diseases) :
                    diseases'[i] = IF diseases[i].id = editingId
                                   THEN SubmittedRecord(editingId)
                                   ELSE diseases[i]
        /\ lastAction' = "add" =>
            /\ editingId = Null
            /\ Len(diseases') = Len(diseases) + 1
            /\ SubSeq(diseases', 1, Len(diseases)) = diseases
            /\ diseases'[Len(diseases')].name = Trim(formData.name)
            /\ diseases'[Len(diseases')].description = Trim(formData.description)
        /\ lastAction' = "delete" =>
            \E i \in 1..Len(diseases) :
                diseases' = SelectSeq(diseases,
                                      LAMBDA d : d.id # diseases[i].id)
        /\ lastAction' = "rejected" =>
            /\ Trim(formData.name) = <<>> \/ Trim(formData.description) = <<>>
            /\ UNCHANGED <<diseases, localDiseases, formData, isEditing,
                           editingId, showAddForm>>
        /\ lastAction' \in {"edit", "add"} =>
                Trim(formData.name) # <<>> /\ Trim(formData.description) # <<>>
      ]_vars

\* the first of two records with different ids has just been edited
C24_Witness ==
    /\ lastAction = "edit" /\ Len(diseases) = 2
    /\ diseases[1].id # diseases[2].id
    /\ diseases[1].name = <<"b">>

\* C28: whenever the form dialog is closed the editor is out of edit mode and
\* the form is blank, whichever way the dialog was closed.
C28_ClosedDialogIsReset ==
    ~showAddForm => (editingId = Null /\ ~isEditing /\ formData = BlankForm)

\* C29: the records of the collection have pairwise-distinct ids after any
\* sequence of adds, edits and deletes on a dataset loaded with distinct ids.
C29_IdsPairwiseDistinct ==
    \A i \in 1..Len(diseases), j \in 1..Len(diseases) :
        i # j => diseases[i].id # diseases[j].id

----------------------------------------------------------------------------
(* the report form's submissions *)

\* C25: at most one submission of the report form is in flight at any time,
\* isSubmitting is true exactly while one is, no submission starts while
\* isSubmitting is true, and every submission that starts leads to a state
\* with isSubmitting false and either submitted true or a submit error.
C25_OneSubmissionInFlight ==
    /\ [](Len(rpTimers) <= 1)
    /\ [](isSubmitting <=> rpTimers # <<>>)
    /\ [][isSubmitting => Len(rpTimers') <= Len(rpTimers)]_vars
    /\ isSubmitting ~> (~isSubmitting /\ (submitted \/ submitError # Null))

\* the submission of a valid report has completed and none is in flight
C25_Witness ==
    /\ rpLast = "done" /\ submitted /\ ~isSubmitting /\ rpTimers = <<>>
    /\ validateForm(rpForm) = Null

----------------------------------------------------------------------------
(* the scanner's result and progress *)

\* the disease that leads every successful result for a file whose name has a
\* keyword (the scanner's valid files all have one)
PrimaryOf(file) == KeywordPriority[DetectIndex(file.name, 0)][2]

\* C26: a result on display belongs to the image on display: whenever
\* analysisResult is a successful result and an image is selected, the result
\* leads with the disease that the selected image's name determines.
C26_ResultOfSelectedImage ==
    (analysisResult # NoResult /\ analysisResult.success
        /\ selectedImage # NoFile) =>
            analysisResult.results[1].diseaseId = PrimaryOf(selectedImage)

\* C30: while an analysis is in flight the simulated progress is at most 90.
C30_ProgressCappedInFlight ==
    isAnalyzing => progress <= Percent(90)

----------------------------------------------------------------------------
(* the report form's previews *)

\* C27: imagePreviews is index-aligned with images: at every index present in
\* both lists the preview is the one of the file at that index, and once no
\* read is pending the two lists have the same length.
C27_PreviewsAlignedWithImages ==
    /\ \A i \in 1..Len(imagePreviews) :
            i <= Len(images) => imagePreviews[i] = images[i].name
    /\ readers = <<>> => Len(imagePreviews) = Len(images)

====
